---- MODULE Spec2Model ----
(***************************************************************************)
(* Order lifecycle of the bakery backend: the checkout router              *)
(* (src/routers/checkout.js), the orders router (src/routers/auth.js,      *)
(* lines 516-868), the error handler (src/unnamed/part_004), the pool      *)
(* helpers (src/unnamed/part_003) and the schema (src/unnamed/part_002).   *)
(*                                                                         *)
(* Money is computed by the code in JavaScript Numbers (IEEE-754 binary64) *)
(* and written with Number.prototype.toFixed(2); the first part of the     *)
(* module is that arithmetic, on exact integers.                           *)
(***************************************************************************)
EXTENDS Integers, Sequences, FiniteSets, TLC

(***************************************************************************)
(* Natural numbers of any size: little-endian sequences of limbs below     *)
(* Base, without leading zero limbs (zero is the empty sequence).          *)
(***************************************************************************)
Base == 2^15

LimbBits == 15 + 0

\* the value of a one-element set: {e : v \in {x}} evaluates x once and
\* calls its value v in e
The(S) == CHOOSE y \in S : TRUE

\* the number of limbs of a up to its last nonzero limb
BNormLen(a) ==
  IF \A i \in 1..Len(a) : a[i] = 0 THEN 0
  ELSE CHOOSE i \in 1..Len(a) :
         a[i] # 0 /\ \A j \in (i + 1)..Len(a) : a[j] = 0

\* a without its leading zero limbs
BNorm(a) == The({SubSeq(av, 1, BNormLen(av)) : av \in {a}})

RECURSIVE BFromInt(_)
BFromInt(n) == IF n = 0 THEN <<>> ELSE <<n % Base>> \o BFromInt(n \div Base)

RECURSIVE BToIntAt(_, _)
BToIntAt(a, i) == IF i > Len(a) THEN 0 ELSE a[i] + Base * BToIntAt(a, i + 1)

BToInt(a) == The({BToIntAt(av, 1) : av \in {a}})

Limb(a, i) == IF 1 <= i /\ i <= Len(a) THEN a[i] ELSE 0

MaxOf(a, b) == IF a > b THEN a ELSE b

MinOf(a, b) == IF a < b THEN a ELSE b

\* the carry into limb i of a + b: a limb below overflows and every limb
\* between hands the carry on
Carry(a, b, i) ==
  \E j \in 1..(i - 1) :
    /\ Limb(a, j) + Limb(b, j) >= Base
    /\ \A k \in (j + 1)..(i - 1) : Limb(a, k) + Limb(b, k) = Base - 1

BAdd(a, b) ==
  The({BNorm([i \in 1..(MaxOf(Len(av), Len(bv)) + 1) |->
                (Limb(av, i) + Limb(bv, i)
                   + (IF Carry(av, bv, i) THEN 1 ELSE 0)) % Base]) :
         av \in {a}, bv \in {b}})

\* the borrow from limb i of a - b
Borrow(a, b, i) ==
  \E j \in 1..(i - 1) :
    /\ Limb(a, j) < Limb(b, j)
    /\ \A k \in (j + 1)..(i - 1) : Limb(a, k) = Limb(b, k)

\* a - b for a >= b
BSub(a, b) ==
  The({BNorm([i \in 1..Len(av) |->
                (Limb(av, i) - Limb(bv, i)
                   - (IF Borrow(av, bv, i) THEN 1 ELSE 0) + Base) % Base]) :
         av \in {a}, bv \in {b}})

\* the limbs where a and b differ, for a and b of one length
Differ(a, b) == {i \in 1..Len(a) : a[i] # b[i]}

\* 1, 0 or -1 as a is above, equal to or below b
BCmp(a, b) ==
  The({IF Len(av) > Len(bv) THEN 1
       ELSE IF Len(av) < Len(bv) THEN -1
       ELSE IF Differ(av, bv) = {} THEN 0
       ELSE The({IF av[i] > bv[i] THEN 1 ELSE -1 :
                   i \in {CHOOSE i \in Differ(av, bv) :
                            \A j \in Differ(av, bv) : j <= i}}) :
         av \in {a}, bv \in {b}})

\* a * m for 0 <= m < Base: the low halves of the limb products plus their
\* high halves one limb up
BMulSmall(a, m) ==
  The({BAdd(BNorm([i \in 1..Len(av) |-> (av[i] * m) % Base]),
            BNorm([i \in 1..(Len(av) + 1) |-> (Limb(av, i - 1) * m) \div Base])) :
         av \in {a}})

BShiftLimbs(a, n) ==
  The({IF av = <<>> THEN <<>> ELSE [i \in 1..n |-> 0] \o av : av \in {a}})

RECURSIVE BMulAt(_, _, _)
BMulAt(a, b, j) ==
  IF j > Len(b) THEN <<>>
  ELSE BAdd(BShiftLimbs(BMulSmall(a, b[j]), j - 1), BMulAt(a, b, j + 1))

BMul(a, b) == The({BMulAt(av, bv, 1) : av \in {a}, bv \in {b}})

\* a * 2^k for 0 <= k < LimbBits
BShlBits(a, k) ==
  BNorm([i \in 1..(Len(a) + 1) |->
           ((Limb(a, i) * 2^k) % Base) + (Limb(a, i - 1) \div 2^(LimbBits - k))])

\* a * 2^k
BShl(a, k) ==
  The({BShiftLimbs(BShlBits(av, k % LimbBits), k \div LimbBits) : av \in {a}})

\* floor(a / 2^k) for 0 <= k < LimbBits
BShrBits(a, k) ==
  BNorm([i \in 1..Len(a) |->
           (a[i] \div 2^k) + ((Limb(a, i + 1) % 2^k) * 2^(LimbBits - k))])

\* floor(a / 2^k)
BShr(a, k) ==
  The({IF k \div LimbBits >= Len(av) THEN <<>>
       ELSE The({BShrBits(top, k % LimbBits) :
                   top \in {SubSeq(av, k \div LimbBits + 1, Len(av))}}) :
         av \in {a}})

\* the number of bits of n, 0 <= n < Base
IntBitLen(n) == Cardinality({k \in 0..(LimbBits - 1) : 2^k <= n})

BBitLen(a) ==
  The({IF av = <<>> THEN 0
       ELSE LimbBits * (Len(av) - 1) + IntBitLen(av[Len(av)]) : av \in {a}})

BPow2(k) == BShl(<<1>>, k)

BIsOdd(a) == The({av # <<>> /\ av[1] % 2 = 1 : av \in {a}})

\* long division, one limb of the quotient at a time.  The estimate of the
\* limb at position j from the two top limbs of rem is the limb or up to 2
\* above it when the top limb of b is Base / 2 or more and rem < b * Base^(j+1)
BDivEstimate(rem, b, j) ==
  MinOf((Limb(rem, Len(b) + j + 1) * Base + Limb(rem, Len(b) + j))
          \div b[Len(b)],
        Base - 1)

\* the limb: the largest d from est - 2 to est with d * bs <= rem
BDivDigit(rem, bs, est) ==
  MaxOf(est - 2, 0)
    + Cardinality({d \in (MaxOf(est - 2, 0) + 1)..est :
                     BCmp(BMulSmall(bs, d), rem) <= 0})

\* the limb at position j put before the quotient st.q and taken off st.r
BDivStep(st, b, j) ==
  The({The({[q |-> <<d>> \o st.q, r |-> BSub(st.r, BMulSmall(bs, d))] :
              d \in {BDivDigit(st.r, bs, BDivEstimate(st.r, b, j))}}) :
         bs \in {BShiftLimbs(b, j)}})

\* st after the limbs j..0 of the quotient
RECURSIVE BDivLimbs(_, _, _)
BDivLimbs(st, b, j) ==
  IF j < 0 THEN st
  ELSE The({BDivLimbs(next, b, j - 1) : next \in {BDivStep(st, b, j)}})

\* a / b for b with a top limb of Base / 2 or more
BDivNormal(a, b) ==
  The({[q |-> BNorm(st.q), r |-> st.r] :
         st \in {BDivLimbs([q |-> <<>>, r |-> a], b, Len(a) - Len(b))}})

\* quotient and remainder of a / b, b > 0: both are shifted to bring the top
\* limb of b to Base / 2 or more, and the remainder is shifted back
BDivMod(a, b) ==
  The({The({[q |-> res.q, r |-> BShr(res.r, sh)] :
              res \in {BDivNormal(BShl(a, sh), BShl(b, sh))}}) :
         sh \in {LimbBits - IntBitLen(b[Len(b)])}})

(***************************************************************************)
(* A JavaScript Number: sign s, magnitude m * 2^e with m a natural number  *)
(* of at most MantBits bits (or exactly 2^MantBits).                       *)
(***************************************************************************)
MantBits == 53 + 0

\* m without its d lowest bits, rounded to nearest, to the even one of two
RoundBits(s, m, e, d) ==
  The({The({[s |-> s, e |-> e + d,
             m |-> IF c > 0 \/ (c = 0 /\ BIsOdd(q)) THEN BAdd(q, <<1>>) ELSE q] :
              c \in {BCmp(BSub(m, BShl(q, d)), BPow2(d - 1))}}) :
         q \in {BShr(m, d)}})

\* round-to-nearest, ties-to-even, of s * m * 2^e to a binary64 value
Round53(s, m, e) ==
  The({IF BBitLen(mv) <= MantBits THEN [s |-> s, m |-> mv, e |-> e]
       ELSE RoundBits(s, mv, e, BBitLen(mv) - MantBits) : mv \in {m}})

DInt(n) == [s |-> IF n < 0 THEN -1 ELSE 1,
            m |-> BFromInt(IF n < 0 THEN -n ELSE n), e |-> 0]

DNeg(x) == The({[xv EXCEPT !.s = -xv.s] : xv \in {x}})

\* x + y for the magnitudes mx and my of x and y at the exponent e
AddAligned(x, y, mx, my, e) ==
  The({IF x.s = y.s THEN Round53(x.s, BAdd(mx, my), e)
       ELSE IF c = 0 THEN [s |-> 1, m |-> <<>>, e |-> 0]
       ELSE IF c > 0 THEN Round53(x.s, BSub(mx, my), e)
       ELSE Round53(y.s, BSub(my, mx), e) : c \in {BCmp(mx, my)}})

\* x + y
DAdd(x, y) ==
  The({The({AddAligned(xv, yv, mx, my, MinOf(xv.e, yv.e)) :
              mx \in {BShl(xv.m, xv.e - MinOf(xv.e, yv.e))},
              my \in {BShl(yv.m, yv.e - MinOf(xv.e, yv.e))}}) :
         xv \in {x}, yv \in {y}})

\* x - y
DSub(x, y) == DAdd(x, DNeg(y))

\* x * y
DMul(x, y) ==
  The({Round53(xv.s * yv.s, BMul(xv.m, yv.m), xv.e + yv.e) :
         xv \in {x}, yv \in {y}})

\* x.m * 2^sh / y.m, the rest of the division kept as one more (sticky) bit
\* so that the rounding is exact
DivSticky(x, y, sh) ==
  The({Round53(x.s * y.s,
               IF qr.r = <<>> THEN BShl(qr.q, 1)
               ELSE BAdd(BShl(qr.q, 1), <<1>>),
               x.e - y.e - sh - 1) :
         qr \in {BDivMod(BShl(x.m, sh), y.m)}})

\* x / y, y # 0: the quotient to MantBits + 2 bits or more before rounding
DDiv(x, y) ==
  The({IF xv.m = <<>> THEN [s |-> 1, m |-> <<>>, e |-> 0]
       ELSE The({DivSticky(xv, yv, IF need > 0 THEN need ELSE 0) :
                   need \in {MantBits + 3 + BBitLen(yv.m) - BBitLen(xv.m)}}) :
         xv \in {x}, yv \in {y}})

\* Number.prototype.toFixed(2), as the number of cents it prints: the
\* integer n with n / 100 closest to |x|, the larger n of two, signed
ToFixed2(x) ==
  The({xv.s * BToInt(IF xv.e >= 0 THEN BShl(BMulSmall(xv.m, 100), xv.e)
                     ELSE BShr(BAdd(BMulSmall(xv.m, 200), BPow2(-xv.e)),
                               1 - xv.e)) : xv \in {x}})

\* for x.e = -k < 0: floor(|x| + 1/2), and whether |x| is an integer and a half
RoundHalf(x, k) ==
  The({[up   |-> BToInt(BShr(BAdd(BShl(x.m, 1), BPow2(k)), k + 1)),
        half |-> frac # <<>> /\ BCmp(frac, BPow2(k - 1)) = 0] :
         frac \in {BSub(x.m, BShl(BShr(x.m, k), k))}})

\* Math.round: the integer floor(x + 1/2), computed exactly
MathRound(x) ==
  The({IF xv.e >= 0 THEN xv.s * BToInt(BShl(xv.m, xv.e))
       ELSE The({IF xv.s = 1 THEN h.up
                 ELSE IF h.half THEN -(h.up - 1) ELSE -h.up :
                   h \in {RoundHalf(xv, -xv.e)}}) : xv \in {x}})

\* a decimal literal with two decimals (1999 is 19.99) as the Number that
\* JSON.parse and parseFloat give: the binary64 value nearest to it
ParseFloat(cents) == DDiv(DInt(cents), DInt(100))

\* a Number of the request body with three decimals (10006 is 10.006)
JsonNumber(milli) == DDiv(DInt(milli), DInt(1000))

\* NULL in a column of integers or decimals
Null == -1

(***************************************************************************)
(* The totals of an order.                                                 *)
(***************************************************************************)
\* const taxRate = 0.085
TaxRate == DDiv(DInt(85), DInt(1000))

\* deliveryFee: 500 cents when the order type is delivery
DeliveryFee == 500

\* items.reduce((sum, item) => sum + parseFloat(item.price) * item.quantity, 0)
RECURSIVE ReduceSubtotal(_, _, _)
ReduceSubtotal(items, i, sum) ==
  IF i > Len(items) THEN sum
  ELSE The({ReduceSubtotal(items, i + 1, next) :
              next \in {DAdd(sum, DMul(JsonNumber(items[i].price),
                                       DInt(items[i].quantity)))}})

\* POST /orders: subtotal, tax and total as written by toFixed(2), in cents
CreateOrderTotals(items) ==
  The({The({[subtotal |-> ToFixed2(subtotal), tax |-> ToFixed2(tax),
             total |-> ToFixed2(DAdd(subtotal, tax))] :
              tax \in {DMul(subtotal, TaxRate)}}) :
         subtotal \in {ReduceSubtotal(items, 1, DInt(0))}})

\* POST /checkout/confirm-order: the same three from session.amount_total
ConfirmOrderTotals(amount_total) ==
  The({The({[subtotal |-> ToFixed2(subtotal),
             tax |-> ToFixed2(DSub(total, subtotal)),
             total |-> ToFixed2(total)] :
              subtotal \in {DDiv(total, DAdd(DInt(1), TaxRate))}}) :
         total \in {DDiv(DInt(amount_total), DInt(100))}})

\* the values of one order_items row
OrderItemValues(item) ==
  [product_id   |-> IF item.id = 0 THEN Null ELSE item.id,
   product_name |-> item.name,
   quantity     |-> item.quantity,
   unit_price   |-> ToFixed2(JsonNumber(item.price)),
   total_price  |-> ToFixed2(DMul(JsonNumber(item.price), DInt(item.quantity)))]

\* unit_amount of a gateway line item: Math.round(item.price * 100)
UnitAmount(item) == MathRound(DMul(JsonNumber(item.price), DInt(100)))

RECURSIVE SumLineItems(_, _)
SumLineItems(items, i) ==
  IF i > Len(items) THEN 0
  ELSE UnitAmount(items[i]) * items[i].quantity + SumLineItems(items, i + 1)

\* what the gateway charges for a session: its line items, delivery fee included
SessionAmount(items, orderType) ==
  SumLineItems(items, 1) + (IF orderType = "delivery" THEN DeliveryFee ELSE 0)

(***************************************************************************)
(* Bounds and inputs.                                                      *)
(***************************************************************************)
\* requests to POST /checkout/confirm-order and POST /orders in one run
MaxReq == 2

\* checkout sessions the gateway creates in one run
MaxSessions == 1

\* failures of the database or of the gateway in one run
MaxFaults == 1

Requests == 1..MaxReq

\* session ids; 0 stands for null (no session id)
Sessions == 1..MaxSessions

\* names for the values generateOrderNumber returns
OrderNumbers == 1..MaxReq

Cookie == [id |-> 1, name |-> "cookie", quantity |-> 1, price |-> 1000]

Cake == [id |-> 2, name |-> "cake", quantity |-> 2, price |-> 19990]

\* a line with a negative price: no handler checks the sign of a price
Refund == [id |-> 3, name |-> "refund", quantity |-> 1, price |-> -1000]

\* the carts a client sends (prices are Numbers, here in thousandths)
Carts == {<<Cookie>>, <<Cookie, Cake>>}

\* a line with a price of 0.125: no handler checks the decimals of a price
Eighth == [id |-> 5, name |-> "eighth", quantity |-> 2, price |-> 125]

\* the carts of the sessions whose orders are read back
RoundTripCarts == {<<Cookie, Cake>>, <<Eighth>>}

\* the carts sent to POST /orders, which the gateway does not see
CreateCarts == Carts \cup {<<Refund>>}

OrderTypes == {"pickup", "delivery"}

EventTypes == {"checkout.session.completed", "payment_intent.succeeded",
               "payment_intent.payment_failed", "customer.created"}

Items ==
  UNION {{c[i] : i \in 1..Len(c)} : c \in CreateCarts \cup RoundTripCarts}

\* the ids of the products of the catalog
Products == {it.id : it \in Items}

\* the arithmetic above on these inputs, computed once: pairs of the input
\* and the result
SessionAmounts ==
  {<<<<c, t>>, SessionAmount(c, t)>> :
     c \in Carts \cup RoundTripCarts, t \in OrderTypes}

CreateTotals == {<<c, CreateOrderTotals(c)>> : c \in CreateCarts}

ConfirmTotals == {<<p[2], ConfirmOrderTotals(p[2])>> : p \in SessionAmounts}

ItemValues == {<<it, OrderItemValues(it)>> : it \in Items}

\* the result paired with input x in table
Lookup(table, x) == (CHOOSE p \in table : p[1] = x)[2]

(***************************************************************************)
(* Errors and the error handler.                                           *)
(***************************************************************************)
NoErr == [name |-> "none", statusCode |-> 0, code |-> "", message |-> ""]

AppError(message, statusCode) ==
  [name |-> "AppError", statusCode |-> statusCode, code |-> "",
   message |-> message]

\* an error thrown by pg: no statusCode, the SQLSTATE in code
PgError(code) ==
  [name |-> "error", statusCode |-> 0, code |-> code, message |-> "pg"]

\* an error thrown by the gateway client; statusCode 0 when no HTTP answer
\* came (connection error, timeout)
StripeError(statusCode) ==
  [name |-> "StripeError", statusCode |-> statusCode, code |-> "",
   message |-> "stripe"]

\* errorHandler: the status and body sent for an error
errorHandler(err) ==
  LET statusCode == IF err.statusCode # 0 THEN err.statusCode ELSE 500
  IN  IF err.code = "23505"
      THEN [status |-> 409, body |-> [error |-> "Resource already exists"]]
      ELSE IF err.code \in {"23503", "22P02"}
      THEN [status |-> 400, body |-> [error |-> "Invalid"]]
      ELSE [status |-> statusCode, body |-> [error |-> err.message]]

VARIABLES
  orders,        \* committed rows of table orders
  order_items,   \* committed rows of table order_items
  orders_id_seq, \* last value of the SERIAL of orders.id
  items_id_seq,  \* last value of the SERIAL of order_items.id
  tx,            \* per request: the rows its open transaction has inserted
  req,           \* per request: the handler's position and locals
  sessions,      \* the gateway's checkout sessions
  created,       \* the answer to the last POST /checkout/create-session
  hook,          \* the last webhook delivery and its answer
  faults,        \* failures injected so far
  specials,      \* rows of table specials
  promo,         \* the last POST /specials/validate-code and its answer
  upd,           \* the last PATCH /orders/:id/status and its answer
  products,      \* ids of the rows of table products
  got,           \* the last GET /orders/:id and its answer
  specials_id_seq, \* last value of the SERIAL of specials.id
  adm            \* the last POST or PUT of /specials and its answer

vars == <<orders, order_items, orders_id_seq, items_id_seq, tx, req,
          sessions, created, hook, faults, specials, promo, upd, products,
          got, specials_id_seq, adm>>

\* the variables of the catalog and of the reads, which the order, status
\* and promo handlers leave alone
catalog == <<products, got, specials_id_seq, adm>>

NoSession == [payment_status |-> "none", amount_total |-> 0,
              items |-> <<>>, orderType |-> "pickup"]

NoBody == [none |-> TRUE]

NoRow == [id |-> 0]

NoTotals == [subtotal |-> 0, tax |-> 0, total |-> 0]

NoTx == [orders |-> {}, items |-> {}]

\* no validate-code request yet
NoPromo ==
  [code |-> "", subtotal |-> 0, items |-> <<>>, now |-> 0, looked |-> FALSE,
   rule |-> [id |-> 0], status |-> 0, body |-> NoBody]

\* no status update yet
NoUpd ==
  [id |-> 0, target |-> "", before |-> "", failed |-> FALSE, status |-> 0,
   body |-> NoBody]

IdleReq ==
  [op |-> "none", pc |-> "idle", sessionId |-> 0, items |-> <<>>,
   session |-> NoSession, totals |-> NoTotals, order |-> NoRow, i |-> 0,
   err |-> NoErr, failedAt |-> "", status |-> 0, body |-> NoBody,
   client |-> "none", released |-> 0, gate |-> "none", dup |-> FALSE,
   after |-> {}, customerOk |-> TRUE]

\* the session the gateway holds after create-session for a cart
NewSession(items, orderType) ==
  [payment_status |-> "unpaid",
   amount_total |-> Lookup(SessionAmounts, <<items, orderType>>),
   items |-> items, orderType |-> orderType]

\* no order read yet
NoGot == [id |-> 0, status |-> 0, body |-> NoBody]

\* no rule created or updated yet
NoAdm == [op |-> "", id |-> 0, status |-> 0, body |-> NoBody]

\* the greatest id of the rows, 0 for no rows: the least value the SERIAL of
\* their table can have
MaxId(rows) ==
  IF rows = {} THEN 0
  ELSE CHOOSE n \in {row.id : row \in rows} : \A row \in rows : row.id <= n

\* no session yet: the state after the server starts on an empty database
Init ==
  /\ orders = {}
  /\ order_items = {}
  /\ orders_id_seq = 0
  /\ items_id_seq = 0
  /\ tx = [r \in Requests |-> NoTx]
  /\ req = [r \in Requests |-> IdleReq]
  /\ sessions = [s \in Sessions |-> NoSession]
  /\ created = [status |-> 0, body |-> NoBody]
  /\ hook = [verified |-> FALSE, type |-> "", session |-> 0, status |-> 0,
             body |-> NoBody]
  /\ faults = 0
  /\ specials = {}
  /\ promo = NoPromo
  /\ upd = NoUpd
  /\ products = Products
  /\ got = NoGot
  /\ specials_id_seq = MaxId(specials)
  /\ adm = NoAdm

Done(r) == req[r].pc = "done"

\* the requests that have been answered
Finished == {r \in Requests : Done(r)}

(***************************************************************************)
(* The database as the handlers see it.  pool.query runs one statement in  *)
(* its own transaction and reads committed rows (READ COMMITTED); a client *)
(* taken with getClient runs BEGIN ... COMMIT / ROLLBACK, and the rows it  *)
(* inserts in between are kept in tx until COMMIT.                         *)
(***************************************************************************)
\* faulty variant: the INSERT runs outside the transaction and is visible at once
InsertAutoCommitted(committed, row) == committed \cup {row}

\* a table as the other connections see it after an INSERT that follows BEGIN
TxInsert(committed, row) == committed

\* a table after COMMIT of a transaction that inserted the rows pending
TxCommit(committed, pending) == committed \cup pending

\* faulty variant: the catch block does not undo the inserted rows
RollbackKeepsRows(committed, pending) == committed \cup pending

\* a table after ROLLBACK of a transaction that inserted the rows pending
TxRollback(committed, pending) == committed

\* SELECT id, order_number FROM orders WHERE stripe_session_id = $1
SelectBySession(sessionId) == {o \in orders : o.stripe_session_id = sessionId}

\* order_number is UNIQUE: the committed row that a new row would collide with
NumberTaken(n) == \E o \in orders : o.order_number = n

\* an uncommitted row of another transaction holds the number: the INSERT waits
NumberPending(r, n) ==
  \E r2 \in Requests \ {r} : \E o \in tx[r2].orders : o.order_number = n

\* generateOrderNumber: a number some row already has, or a new one; the new
\* one is named by the least name that no row has
NumbersInUse ==
  {o.order_number : o \in orders \cup UNION {tx[r].orders : r \in Requests}}

generateOrderNumber ==
  {n \in OrderNumbers :
     n \in NumbersInUse \/ \A k \in OrderNumbers \ NumbersInUse : n <= k}

(***************************************************************************)
(* What a handler does with its request record q.                          *)
(***************************************************************************)
\* res.status(status).json(body), the last thing a handler does
Answer(q, status, body) ==
  [q EXCEPT !.pc = "done", !.status = status, !.body = body]

\* an error leaves the handler: asyncHandler hands it to errorHandler
Throw(q, err) ==
  LET a == errorHandler(err)
  IN  [Answer(q, a.status, a.body) EXCEPT !.err = err]

\* faulty variant: the client is released at the end of the try block, and
\* not when an error leaves the handler
ReleaseUnlessThrown(q) ==
  IF q.status >= 400 THEN q
  ELSE [q EXCEPT !.client = "released", !.released = @ + 1]

\* finally { client.release() }
Release(q) ==
  [q EXCEPT !.client = "released", !.released = @ + 1]

\* faulty variant: any session the gateway returns counts as paid
PaymentNotChecked(session) == session.payment_status # "none"

\* if (session.payment_status !== 'paid') throw new AppError(...)
PaymentCompleted(session) == session.payment_status = "paid"

\* two readings of the clock: CURRENT_TIMESTAMP when a row is inserted, and
\* when it is updated later
InsertTime == 1

UpdateTime == 2

\* the row INSERTed by POST /checkout/confirm-order
ConfirmOrderRow(q, id, number) ==
  [id |-> id, order_number |-> number, status |-> "confirmed",
   subtotal |-> q.totals.subtotal, tax |-> q.totals.tax,
   total |-> q.totals.total, fulfillment_type |-> q.session.orderType,
   stripe_session_id |-> q.sessionId, updated_at |-> InsertTime]

\* faulty variant: the row is stored with a status that is none of the six
CreateOrderRowNew(q, id, number) ==
  [id |-> id, order_number |-> number, status |-> "new",
   subtotal |-> q.totals.subtotal, tax |-> q.totals.tax,
   total |-> q.totals.total, fulfillment_type |-> "pickup",
   stripe_session_id |-> q.sessionId, updated_at |-> InsertTime]

\* the row INSERTed by POST /orders
CreateOrderRow(q, id, number) ==
  [id |-> id, order_number |-> number, status |-> "pending",
   subtotal |-> q.totals.subtotal, tax |-> q.totals.tax,
   total |-> q.totals.total, fulfillment_type |-> "pickup",
   stripe_session_id |-> q.sessionId, updated_at |-> InsertTime]

OrderRow(q, id, number) ==
  IF q.op = "confirm" THEN ConfirmOrderRow(q, id, number)
  ELSE CreateOrderRow(q, id, number)

\* the body of the 201 answer of both handlers
CreatedBody(order) ==
  [id |-> order.id, orderNumber |-> order.order_number,
   status |-> order.status, total |-> order.total]

\* the body of the answer of confirm-order when the order exists
ExistingBody(row) == [id |-> row.id, orderNumber |-> row.order_number]

\* requests are numbered in the order they arrive
CanStart(r) ==
  /\ req[r].op = "none"
  /\ IF r = 1 THEN TRUE ELSE req[r - 1].op # "none"

(***************************************************************************)
(* POST /checkout/confirm-order                                            *)
(***************************************************************************)
\* the request arrives; sessionId 0 is a body without session id
ConfirmOrder(r, sessionId) ==
  /\ CanStart(r)
  /\ LET q == [req[r] EXCEPT !.op = "confirm", !.sessionId = sessionId,
                             !.after = Finished]
     IN  req' = [req EXCEPT ![r] =
                   IF sessionId = 0
                   THEN Throw(q, AppError("Session ID is required", 400))
                   ELSE [q EXCEPT !.pc = "select"]]
  /\ UNCHANGED <<orders, order_items, orders_id_seq, items_id_seq, tx,
                 sessions, created, hook, faults, specials, promo, upd, catalog>>

\* the existence check and, on a hit, the answer
ConfirmSelect(r) ==
  /\ req[r].pc = "select"
  /\ \/ /\ faults < MaxFaults
        /\ faults' = faults + 1
        /\ req' = [req EXCEPT ![r] =
                     [Throw(@, PgError("08006")) EXCEPT !.failedAt = "select"]]
     \/ /\ UNCHANGED faults
        /\ LET rows == SelectBySession(req[r].sessionId)
           IN  IF rows # {}
               THEN \E row \in rows :
                      req' = [req EXCEPT ![r] =
                                [Answer(@, 200, ExistingBody(row))
                                   EXCEPT !.gate = "hit"]]
               ELSE req' = [req EXCEPT ![r].pc = "retrieve",
                                       ![r].gate = "miss"]
  /\ UNCHANGED <<orders, order_items, orders_id_seq, items_id_seq, tx,
                 sessions, created, hook, specials, promo, upd, catalog>>

\* stripe.checkout.sessions.retrieve, the payment check and the totals
ConfirmRetrieve(r) ==
  /\ req[r].pc = "retrieve"
  /\ \/ /\ faults < MaxFaults
        /\ faults' = faults + 1
        /\ req' = [req EXCEPT ![r] =
                     [Throw(@, StripeError(0)) EXCEPT !.failedAt = "retrieve"]]
     \/ /\ UNCHANGED faults
        /\ LET session == sessions[req[r].sessionId]
           IN  IF session.payment_status = "none"
               THEN req' = [req EXCEPT ![r] =
                       [Throw(@, StripeError(404)) EXCEPT !.failedAt = "retrieve"]]
               ELSE IF ~PaymentCompleted(session)
               THEN req' = [req EXCEPT ![r] =
                       Throw([@ EXCEPT !.session = session],
                             AppError("Payment not completed", 400))]
               ELSE req' = [req EXCEPT ![r] =
                       [@ EXCEPT !.session = session,
                                 !.items = session.items,
                                 !.totals = Lookup(ConfirmTotals, session.amount_total),
                                 !.pc = "getClient"]]
  /\ UNCHANGED <<orders, order_items, orders_id_seq, items_id_seq, tx,
                 sessions, created, hook, specials, promo, upd, catalog>>

(***************************************************************************)
(* POST /orders                                                            *)
(***************************************************************************)
\* faulty variant: the customer's email and name are not required
ValidationSkipsCustomer(items, customerOk) ==
  IF Len(items) = 0
  THEN AppError("Order must contain at least one item", 400)
  ELSE NoErr

\* the two checks at the head of the handler; items <<>> is a cart that is
\* missing or empty
ValidationError(items, customerOk) ==
  IF Len(items) = 0
  THEN AppError("Order must contain at least one item", 400)
  ELSE IF ~customerOk
  THEN AppError("Customer email and name are required", 400)
  ELSE NoErr

\* the request arrives: validation and totals; customerOk says whether
\* customerInfo has both email and name; sessionId 0 is no stripeSessionId
CreateOrder(r, items, customerOk, sessionId) ==
  /\ CanStart(r)
  /\ LET q == [req[r] EXCEPT !.op = "create", !.sessionId = sessionId,
                             !.items = items, !.customerOk = customerOk,
                             !.after = Finished]
         err == ValidationError(items, customerOk)
     IN  req' = [req EXCEPT ![r] =
                   IF err # NoErr
                   THEN Throw(q, err)
                   ELSE [q EXCEPT !.totals = Lookup(CreateTotals, items),
                                  !.pc = "getClient"]]
  /\ UNCHANGED <<orders, order_items, orders_id_seq, items_id_seq, tx,
                 sessions, created, hook, faults, specials, promo, upd, catalog>>

(***************************************************************************)
(* The transaction block of both handlers.                                 *)
(***************************************************************************)
\* const client = await getClient(), outside the try
GetClient(r) ==
  /\ req[r].pc = "getClient"
  /\ \/ /\ faults < MaxFaults
        /\ faults' = faults + 1
        /\ req' = [req EXCEPT ![r] =
                     [Throw(@, PgError("08006")) EXCEPT !.failedAt = "getClient"]]
     \/ /\ UNCHANGED faults
        /\ req' = [req EXCEPT ![r].client = "held", ![r].pc = "begin"]
  /\ UNCHANGED <<orders, order_items, orders_id_seq, items_id_seq, tx,
                 sessions, created, hook, specials, promo, upd, catalog>>

\* await client.query('BEGIN')
Begin(r) ==
  /\ req[r].pc = "begin"
  /\ \/ /\ faults < MaxFaults
        /\ faults' = faults + 1
        /\ req' = [req EXCEPT ![r].pc = "rollback",
                              ![r].err = PgError("08006"),
                              ![r].failedAt = "begin"]
     \/ /\ UNCHANGED faults
        /\ req' = [req EXCEPT ![r].pc = "insertOrder"]
  /\ UNCHANGED <<orders, order_items, orders_id_seq, items_id_seq, tx,
                 sessions, created, hook, specials, promo, upd, catalog>>

\* INSERT INTO orders ... RETURNING *
InsertOrder(r) ==
  /\ req[r].pc = "insertOrder"
  /\ \/ /\ faults < MaxFaults
        /\ faults' = faults + 1
        /\ req' = [req EXCEPT ![r].pc = "rollback",
                              ![r].err = PgError("08006"),
                              ![r].failedAt = "insertOrder"]
        /\ UNCHANGED <<orders, orders_id_seq, tx>>
     \/ /\ UNCHANGED faults
        /\ \E n \in generateOrderNumber :
             /\ ~NumberPending(r, n)
             /\ orders_id_seq' = orders_id_seq + 1
             /\ IF NumberTaken(n)
                THEN /\ req' = [req EXCEPT ![r].pc = "rollback",
                                           ![r].err = PgError("23505"),
                                           ![r].failedAt = "insertOrder"]
                     /\ UNCHANGED <<orders, tx>>
                ELSE LET row == OrderRow(req[r], orders_id_seq + 1, n)
                     IN  /\ tx' = [tx EXCEPT ![r].orders = @ \cup {row}]
                         /\ orders' = TxInsert(orders, row)
                         /\ req' = [req EXCEPT
                              ![r].order = row,
                              ![r].dup = SelectBySession(row.stripe_session_id) # {}
                                         /\ row.stripe_session_id # 0,
                              ![r].i = 1,
                              ![r].pc = IF Len(req[r].items) = 0
                                        THEN "commit" ELSE "insertItem"]
  /\ UNCHANGED <<order_items, items_id_seq, sessions, created, hook,
                 specials, promo, upd, catalog>>

\* product_id INTEGER REFERENCES products(id)
ForeignKey(product_id) == product_id = Null \/ product_id \in products

\* INSERT INTO order_items ..., once for each item
InsertItem(r) ==
  /\ req[r].pc = "insertItem"
  /\ \/ /\ faults < MaxFaults
        /\ faults' = faults + 1
        /\ req' = [req EXCEPT ![r].pc = "rollback",
                              ![r].err = PgError("08006"),
                              ![r].failedAt = "insertItem"]
        /\ UNCHANGED <<order_items, items_id_seq, tx>>
     \/ /\ UNCHANGED faults
        /\ LET q   == req[r]
               row == [id |-> items_id_seq + 1, order_id |-> q.order.id]
                        @@ Lookup(ItemValues, q.items[q.i])
           IN  /\ items_id_seq' = items_id_seq + 1
               /\ IF ~ForeignKey(row.product_id)
                  THEN /\ req' = [req EXCEPT ![r].pc = "rollback",
                                             ![r].err = PgError("23503"),
                                             ![r].failedAt = "insertItem"]
                       /\ UNCHANGED <<order_items, tx>>
                  ELSE /\ tx' = [tx EXCEPT ![r].items = @ \cup {row}]
                       /\ order_items' = TxInsert(order_items, row)
                       /\ req' = [req EXCEPT
                            ![r].i = q.i + 1,
                            ![r].pc = IF q.i = Len(q.items) THEN "commit"
                                      ELSE "insertItem"]
  /\ UNCHANGED <<orders, orders_id_seq, sessions, created, hook,
                 specials, promo, upd, catalog>>

\* await client.query('COMMIT'), the 201 answer and the finally block
Commit(r) ==
  /\ req[r].pc = "commit"
  /\ \/ /\ faults < MaxFaults
        /\ faults' = faults + 1
        /\ req' = [req EXCEPT ![r].pc = "rollback",
                              ![r].err = PgError("08006"),
                              ![r].failedAt = "commit"]
        /\ UNCHANGED <<orders, order_items, tx>>
     \/ /\ UNCHANGED faults
        /\ orders' = TxCommit(orders, tx[r].orders)
        /\ order_items' = TxCommit(order_items, tx[r].items)
        /\ tx' = [tx EXCEPT ![r] = NoTx]
        /\ req' = [req EXCEPT ![r] =
                     Release(Answer(@, 201, CreatedBody(req[r].order)))]
  /\ UNCHANGED <<orders_id_seq, items_id_seq, sessions, created, hook,
                 specials, promo, upd, catalog>>

\* catch: await client.query('ROLLBACK'); throw error; then the finally
\* block.  When ROLLBACK itself throws, its error is the one thrown on, and
\* the server drops the transaction with the connection
Rollback(r) ==
  /\ req[r].pc = "rollback"
  /\ \/ /\ faults < MaxFaults
        /\ faults' = faults + 1
        /\ req' = [req EXCEPT ![r] = Release(Throw(@, PgError("08006")))]
     \/ /\ UNCHANGED faults
        /\ req' = [req EXCEPT ![r] = Release(Throw(@, req[r].err))]
  /\ orders' = TxRollback(orders, tx[r].orders)
  /\ order_items' = TxRollback(order_items, tx[r].items)
  /\ tx' = [tx EXCEPT ![r] = NoTx]
  /\ UNCHANGED <<orders_id_seq, items_id_seq, sessions, created, hook,
                 specials, promo, upd, catalog>>

(***************************************************************************)
(* POST /checkout/create-session, the customer paying at the gateway, and  *)
(* POST /checkout/webhook.                                                 *)
(***************************************************************************)
\* the session id the gateway gives to the next session
FreeSession(s) ==
  /\ sessions[s].payment_status = "none"
  /\ \A s2 \in Sessions : s2 < s => sessions[s2].payment_status # "none"

\* faulty variant: the handler stores a pending order for the session
OrdersWithPending(rows, sessionId) ==
  rows \cup {[id |-> 0, order_number |-> 0, status |-> "pending",
              subtotal |-> 0, tax |-> 0, total |-> 0,
              fulfillment_type |-> "pickup",
              stripe_session_id |-> sessionId, updated_at |-> InsertTime]}

\* table orders after the handler: it has no statement for the database
OrdersAfterCreateSession(rows, sessionId) == rows

\* the whole handler: it has one await, the gateway call
CreateSession(items, orderType) ==
  /\ IF Len(items) = 0
     THEN /\ created' = errorHandler(AppError("No items in cart", 400))
          /\ UNCHANGED <<sessions, faults, orders>>
     ELSE \/ /\ faults < MaxFaults
             /\ faults' = faults + 1
             /\ created' = errorHandler(StripeError(0))
             /\ UNCHANGED <<sessions, orders>>
          \/ /\ UNCHANGED faults
             /\ \E s \in Sessions :
                  /\ FreeSession(s)
                  /\ sessions' = [sessions EXCEPT ![s] =
                                    NewSession(items, orderType)]
                  /\ created' = [status |-> 200, body |-> [sessionId |-> s]]
                  /\ orders' = OrdersAfterCreateSession(orders, s)
  /\ UNCHANGED <<order_items, orders_id_seq, items_id_seq, tx, req,
                 hook, specials, promo, upd, catalog>>

\* the customer pays on the page the gateway hosts
Pay(s) ==
  /\ sessions[s].payment_status = "unpaid"
  /\ sessions' = [sessions EXCEPT ![s].payment_status = "paid"]
  /\ UNCHANGED <<orders, order_items, orders_id_seq, items_id_seq, tx, req,
                 created, hook, faults, specials, promo, upd, catalog>>

\* faulty variant: the notification is acknowledged whatever constructEvent says
AnswerUnverified(verified) == [status |-> 200, body |-> [received |-> TRUE]]

\* the answer of the webhook handler: 400 with the reason when constructEvent
\* throws, {received: true} after the switch otherwise
WebhookAnswer(verified) ==
  IF ~verified
  THEN [status |-> 400, body |-> [error |-> "Webhook Error: signature"]]
  ELSE [status |-> 200, body |-> [received |-> TRUE]]

\* one delivery; the handler has no await.  verified is the outcome of
\* stripe.webhooks.constructEvent; the event is known only when it succeeds.
\* Both outcomes are kept: which one a genuine delivery gets depends on the
\* body the parsers mounted before the router leave in req.body (server.js)
Webhook(verified, type, s) ==
  /\ verified => sessions[s].payment_status # "none"
  /\ type = "checkout.session.completed" /\ verified
       => sessions[s].payment_status = "paid"
  /\ LET a == WebhookAnswer(verified)
     IN  hook' = [verified |-> verified,
                  type |-> IF verified THEN type ELSE "",
                  session |-> IF verified THEN s ELSE 0,
                  status |-> a.status, body |-> a.body]
  /\ UNCHANGED <<orders, order_items, orders_id_seq, items_id_seq, tx, req,
                 sessions, created, faults, specials, promo, upd, catalog>>

\* the order requests: both handlers and their transaction block
Handlers(rs) ==
  \/ \E r \in rs : \E s \in Sessions \cup {0} : ConfirmOrder(r, s)
  \/ \E r \in rs : ConfirmSelect(r)
  \/ \E r \in rs : ConfirmRetrieve(r)
  \/ \E r \in rs : \E items \in CreateCarts \cup {<<>>} :
       \E ok \in BOOLEAN : \E s \in Sessions \cup {0} :
         CreateOrder(r, items, ok, s)
  \/ \E r \in rs : GetClient(r)
  \/ \E r \in rs : Begin(r)
  \/ \E r \in rs : InsertOrder(r)
  \/ \E r \in rs : InsertItem(r)
  \/ \E r \in rs : Commit(r)
  \/ \E r \in rs : Rollback(r)

(***************************************************************************)
(* Spec: MaxReq concurrent order requests against sessions that            *)
(* create-session has made before; the customers pay at any time.          *)
(***************************************************************************)
\* the gateway after some calls of create-session: ids are given in order
SessionsCreated ==
  {f \in [Sessions -> {NoSession} \cup
                      {NewSession(c, t) : c \in Carts, t \in OrderTypes}] :
     \A s \in Sessions :
       f[s] = NoSession => \A s2 \in Sessions : s2 > s => f[s2] = NoSession}

InitOrders ==
  /\ orders = {}
  /\ order_items = {}
  /\ orders_id_seq = 0
  /\ items_id_seq = 0
  /\ tx = [r \in Requests |-> NoTx]
  /\ req = [r \in Requests |-> IdleReq]
  /\ sessions \in SessionsCreated
  /\ created = [status |-> 0, body |-> NoBody]
  /\ hook = [verified |-> FALSE, type |-> "", session |-> 0, status |-> 0,
             body |-> NoBody]
  /\ faults = 0
  /\ specials = {}
  /\ promo = NoPromo
  /\ upd = NoUpd
  /\ products = Products
  /\ got = NoGot
  /\ specials_id_seq = MaxId(specials)
  /\ adm = NoAdm

Next ==
  \/ Handlers(Requests)
  \/ \E s \in Sessions : Pay(s)

Spec == InitOrders /\ [][Next]_vars

(***************************************************************************)
(* SpecCheckout: the checkout flow from an empty gateway, with the         *)
(* webhook, for MaxCheckoutReq order requests.                             *)
(***************************************************************************)
MaxCheckoutReq == 1

NextCheckout ==
  \/ Handlers(1..MaxCheckoutReq)
  \/ \E items \in Carts \cup {<<>>} : \E t \in OrderTypes :
       CreateSession(items, t)
  \/ \E s \in Sessions : Pay(s)
  \/ \E v \in BOOLEAN : \E t \in EventTypes : \E s \in Sessions :
       Webhook(v, t, s)

SpecCheckout == Init /\ [][NextCheckout]_vars

(***************************************************************************)
(* GET /orders/:id, for a request that passed authenticate, and            *)
(* DELETE /products/:id, for one that passed authorize.                    *)
(***************************************************************************)
\* json_build_object(...) for one row of order_items; the decimals are
\* Numbers, here in cents
LineItem(l) ==
  [id |-> l.id, productId |-> l.product_id, productName |-> l.product_name,
   quantity |-> l.quantity, unitPrice |-> l.unit_price,
   totalPrice |-> l.total_price]

\* json_agg over the LEFT JOIN, and order.items[0]?.id ? order.items : []
JsonAgg(rows, order) ==
  {LineItem(l) : l \in {x \in rows : x.order_id = order.id}}

\* the order of the answer
OrderView(order) ==
  [id |-> order.id, orderNumber |-> order.order_number,
   status |-> order.status, subtotal |-> order.subtotal, tax |-> order.tax,
   total |-> order.total, stripeSessionId |-> order.stripe_session_id,
   items |-> JsonAgg(order_items, order)]

\* the whole handler: it has one await, the query
GetOrder(id) ==
  /\ \/ /\ faults < MaxFaults
        /\ faults' = faults + 1
        /\ LET a == errorHandler(PgError("08006"))
           IN  got' = [id |-> id, status |-> a.status, body |-> a.body]
     \/ /\ UNCHANGED faults
        /\ LET rows == {o \in orders : o.id = id}
           IN  IF rows = {}
               THEN LET a == errorHandler(AppError("Order not found", 404))
                    IN  got' = [id |-> id, status |-> a.status,
                                body |-> a.body]
               ELSE \E order \in rows :
                      got' = [id |-> id, status |-> 200,
                              body |-> OrderView(order)]
  /\ UNCHANGED <<orders, order_items, orders_id_seq, items_id_seq, tx, req,
                 sessions, created, hook, specials, promo, upd, products,
                 specials_id_seq, adm>>

\* DELETE FROM products WHERE id = $1, after the row was found; the
\* statement waits for the transactions that inserted a line of the product
\* (they hold a lock on its row), and ON DELETE SET NULL clears the lines
DeleteProduct(p) ==
  /\ p \in products
  /\ \A r \in Requests : \A l \in tx[r].items : l.product_id # p
  /\ products' = products \ {p}
  /\ order_items' = {IF l.product_id = p THEN [l EXCEPT !.product_id = Null]
                     ELSE l : l \in order_items}
  /\ UNCHANGED <<orders, orders_id_seq, items_id_seq, tx, req, sessions,
                 created, hook, faults, specials, promo, upd, got,
                 specials_id_seq, adm>>

(***************************************************************************)
(* SpecRoundTrip: MaxCheckoutReq confirm requests for the sessions of      *)
(* RoundTripCarts, while orders are read and products deleted.             *)
(***************************************************************************)
NextRoundTrip ==
  \/ \E r \in 1..MaxCheckoutReq : \E s \in Sessions : ConfirmOrder(r, s)
  \/ \E r \in 1..MaxCheckoutReq : ConfirmSelect(r)
  \/ \E r \in 1..MaxCheckoutReq : ConfirmRetrieve(r)
  \/ \E r \in 1..MaxCheckoutReq : GetClient(r)
  \/ \E r \in 1..MaxCheckoutReq : Begin(r)
  \/ \E r \in 1..MaxCheckoutReq : InsertOrder(r)
  \/ \E r \in 1..MaxCheckoutReq : InsertItem(r)
  \/ \E r \in 1..MaxCheckoutReq : Commit(r)
  \/ \E r \in 1..MaxCheckoutReq : Rollback(r)
  \/ \E items \in RoundTripCarts : CreateSession(items, "pickup")
  \/ \E s \in Sessions : Pay(s)
  \/ \E id \in 1..MaxCheckoutReq : GetOrder(id)
  \/ \E p \in {Cake.id, Eighth.id} : DeleteProduct(p)

SpecRoundTrip == Init /\ [][NextRoundTrip]_vars

(***************************************************************************)
(* PATCH /orders/:id/status, for a request that passed authenticate.       *)
(***************************************************************************)
\* const validStatuses = [...]
ValidStatuses ==
  {"pending", "confirmed", "preparing", "ready", "completed", "cancelled"}

\* the statuses a request asks for; "" is a body without status
Targets == ValidStatuses \cup {"shipped", ""}

\* the id of the path that is not a number
NotANumber == -1

\* the rules staff create
MaxSpecials == 2

\* the ids a request names: those of the orders, one more, and NotANumber
StatusIds == 1..(MaxCheckoutReq + 1) \cup {NotANumber}

\* faulty variant: the target is not validated
AnyStatusValid(status) == TRUE

\* validStatuses.includes(status)
ValidStatus(status) == status \in ValidStatuses

\* the CHECK constraint of orders.status
StatusCheck(status) ==
  status \in {"pending", "confirmed", "preparing", "ready", "completed",
              "cancelled"}

\* the trigger update_orders_updated_at, BEFORE UPDATE FOR EACH ROW
update_updated_at_column(new) == [new EXCEPT !.updated_at = UpdateTime]

\* faulty variant: an order that is completed or cancelled is left as it is
UpdateSkipsFinished(rows, id, status) ==
  {IF o.id = id /\ o.status \notin {"completed", "cancelled"}
   THEN update_updated_at_column([o EXCEPT !.status = status])
   ELSE o : o \in rows}

\* faulty variant: the statement has no WHERE clause
UpdateEveryRow(rows, id, status) ==
  {update_updated_at_column([o EXCEPT !.status = status]) : o \in rows}

\* UPDATE orders SET status = $1 WHERE id = $2
UpdateRows(rows, id, status) ==
  {IF o.id = id THEN update_updated_at_column([o EXCEPT !.status = status])
   ELSE o : o \in rows}

\* the status of the committed order with this id, "" when there is none
StatusOf(id) ==
  IF \E o \in orders : o.id = id
  THEN (CHOOSE o \in orders : o.id = id).status ELSE ""

\* the answer to a status update that failed with err
UpdateFailed(id, status, err, fault) ==
  LET a == errorHandler(err)
  IN  [id |-> id, target |-> status, before |-> StatusOf(id),
       failed |-> fault, status |-> a.status, body |-> a.body]

\* the whole handler: it has one await, the UPDATE
UpdateStatus(id, status) ==
  /\ IF ~ValidStatus(status)
     THEN /\ upd' = UpdateFailed(id, status,
                                 AppError("Invalid status", 400), FALSE)
          /\ UNCHANGED <<orders, faults>>
     ELSE \/ /\ faults < MaxFaults
             /\ faults' = faults + 1
             /\ upd' = UpdateFailed(id, status, PgError("08006"), TRUE)
             /\ UNCHANGED orders
          \/ /\ UNCHANGED faults
             /\ IF id = NotANumber
                THEN /\ upd' = UpdateFailed(id, status, PgError("22P02"), FALSE)
                     /\ UNCHANGED orders
                ELSE IF ~StatusCheck(status)
                THEN /\ upd' = UpdateFailed(id, status, PgError("23514"), FALSE)
                     /\ UNCHANGED orders
                ELSE LET rows == {o \in UpdateRows(orders, id, status) :
                                   o.id = id}
                     IN  /\ orders' = UpdateRows(orders, id, status)
                         /\ IF rows = {}
                            THEN upd' = UpdateFailed(id, status,
                                          AppError("Order not found", 404), FALSE)
                            ELSE \E row \in rows :
                                   upd' = [id |-> id, target |-> status,
                                           before |-> StatusOf(id),
                                           failed |-> FALSE, status |-> 200,
                                           body |-> [id |-> row.id,
                                                     orderNumber |-> row.order_number,
                                                     status |-> row.status]]
  /\ UNCHANGED <<order_items, orders_id_seq, items_id_seq, tx, req, sessions,
                 created, hook, specials, promo, catalog>>

(***************************************************************************)
(* SpecStatus: staff update the status of the orders while                 *)
(* MaxCheckoutReq order requests run.                                      *)
(***************************************************************************)
NextStatus ==
  \/ Handlers(1..MaxCheckoutReq)
  \/ \E s \in Sessions : Pay(s)
  \/ \E id \in StatusIds : \E status \in Targets : UpdateStatus(id, status)

SpecStatus == InitOrders /\ [][NextStatus]_vars

(***************************************************************************)
(* SpecFrame: MaxReq create requests for one cart, and updates of the      *)
(* status of their orders.                                                 *)
(***************************************************************************)
NextFrame ==
  \/ \E r \in Requests : CreateOrder(r, <<Cookie, Cake>>, TRUE, 0)
  \/ \E r \in Requests : GetClient(r)
  \/ \E r \in Requests : Begin(r)
  \/ \E r \in Requests : InsertOrder(r)
  \/ \E r \in Requests : InsertItem(r)
  \/ \E r \in Requests : Commit(r)
  \/ \E r \in Requests : Rollback(r)
  \/ \E id \in 1..MaxReq : \E status \in {"ready", "cancelled"} :
       UpdateStatus(id, status)

SpecFrame == Init /\ [][NextFrame]_vars

(***************************************************************************)
(* POST /specials/validate-code                                            *)
(***************************************************************************)
\* x < y
DLess(x, y) == The({d.m # <<>> /\ d.s = -1 : d \in {DSub(x, y)}})

\* Math.min(x, y)
MathMin(x, y) == IF DLess(y, x) THEN y ELSE x

\* the rules staff have created.  value is the JSONB column: a number (in
\* hundredths) or, with number Null, an object {buyQuantity, getQuantity}
Save10 ==
  [id |-> 1, code |-> "SAVE10", type |-> "discount_percentage",
   value |-> [number |-> 1000, buy |-> 0, get |-> 0], active |-> TRUE,
   start_date |-> 1, end_date |-> 2, min_purchase |-> 4000,
   max_uses |-> Null, used_count |-> 0]

Save10Off == [Save10 EXCEPT !.active = FALSE]

Twenty ==
  [id |-> 2, code |-> "TWENTY", type |-> "fixed_price",
   value |-> [number |-> 2000, buy |-> 0, get |-> 0], active |-> TRUE,
   start_date |-> 2, end_date |-> 3, min_purchase |-> Null,
   max_uses |-> 2, used_count |-> 1]

TwentySpent == [Twenty EXCEPT !.used_count = 2]

Bundle ==
  [id |-> 3, code |-> "BUNDLE", type |-> "bundle_discount",
   value |-> [number |-> 1500, buy |-> 0, get |-> 0], active |-> TRUE,
   start_date |-> 1, end_date |-> 3, min_purchase |-> Null,
   max_uses |-> Null, used_count |-> 0]

B2G1 ==
  [id |-> 4, code |-> "B2G1", type |-> "buy_x_get_y",
   value |-> [number |-> Null, buy |-> 2, get |-> 1], active |-> TRUE,
   start_date |-> 1, end_date |-> 3, min_purchase |-> Null,
   max_uses |-> Null, used_count |-> 0]

Ten ==
  [id |-> 5, code |-> "TEN", type |-> "discount_percentage",
   value |-> [number |-> 1000, buy |-> 0, get |-> 0], active |-> TRUE,
   start_date |-> 1, end_date |-> 3, min_purchase |-> Null,
   max_uses |-> Null, used_count |-> 0]

BundleTen == [Ten EXCEPT !.id = 6, !.code = "BTEN", !.type = "bundle_discount"]

\* the whole subtotal off, and nothing off
Free == [Ten EXCEPT !.id = 7, !.code = "FREE", !.value.number = 10000]

Zero == [Ten EXCEPT !.id = 8, !.code = "ZERO", !.value.number = 0]

\* a value without quantities, and one with quantities of its own
BDefault ==
  [B2G1 EXCEPT !.id = 9, !.code = "BXGY", !.value = [number |-> Null,
                                                     buy |-> 0, get |-> 0]]

B3G2 ==
  [B2G1 EXCEPT !.id = 10, !.code = "B3G2", !.value = [number |-> Null,
                                                     buy |-> 3, get |-> 2]]

\* the contents of table specials when the requests arrive
SpecialTables ==
  {{Save10, Twenty, Bundle, B2G1}, {Save10Off, TwentySpent, Bundle, B2G1}}

\* a table of rules without minimum, window or limit of uses
DiscountTable == {Ten, BundleTen, Free, Zero, B2G1, BDefault, B3G2}

Rules == UNION SpecialTables \cup DiscountTable

\* the inputs of a request: code ("" is a body without code), subtotal in
\* thousandths, items, and the time NOW() gives
Codes == {"", "save10", "TWENTY", "bundle", "B2G1", "NOPE"}

Subtotals == {39990, 40000, 10006, -10000}

PromoCarts == {<<>>, <<Cookie, Cake>>}

\* the inputs of the requests against DiscountTable
DiscountCodes == {sp.code : sp \in DiscountTable}

DiscountSubtotals == {50000, 40000, 10006, 1005, 0, -10000}

\* five items at 10.00 each
Five == [id |-> 4, name |-> "five", quantity |-> 5, price |-> 10000]

DiscountCarts == {<<>>, <<Cookie>>, <<Cookie, Cake>>, <<Five>>}

Times == 1..3

\* code.toUpperCase()
ToUpperCase(code) ==
  CASE code = "save10" -> "SAVE10"
    [] code = "bundle" -> "BUNDLE"
    [] code = "big" -> "BIG"
    [] OTHER -> code

\* faulty variant: the uses of a rule are not compared with max_uses
SelectIgnoresUses(rows, code, now) ==
  {sp \in rows : /\ sp.code = code
                 /\ sp.active
                 /\ sp.start_date <= now
                 /\ sp.end_date >= now}

\* SELECT * FROM specials WHERE code = $1 AND active = true AND ...
SelectSpecial(rows, code, now) ==
  {sp \in rows : /\ sp.code = code
                 /\ sp.active
                 /\ sp.start_date <= now
                 /\ sp.end_date >= now
                 /\ (sp.max_uses = Null \/ sp.used_count < sp.max_uses)}

\* special.min_purchase && subtotal < special.min_purchase.  node-postgres
\* gives a DECIMAL column as a string: any string of a DECIMAL(10, 2) is
\* truthy, and < compares it as a Number
BelowMinimum(special, subtotal) ==
  /\ special.min_purchase # Null
  /\ DLess(subtotal, ParseFloat(special.min_purchase))

\* items.reduce((sum, item) => sum + item.quantity, 0)
RECURSIVE TotalItems(_, _)
TotalItems(items, i) ==
  IF i > Len(items) THEN 0 ELSE items[i].quantity + TotalItems(items, i + 1)

\* special.value?.buy_quantity || special.value?.buyQuantity || 2
BuyQty(special) == IF special.value.buy > 0 THEN special.value.buy ELSE 2

\* special.value?.get_quantity || special.value?.getQuantity || 1
GetQty(special) == IF special.value.get > 0 THEN special.value.get ELSE 1

\* faulty variant: the free items are not counted per group of
\* buyQty + getQty items
BuyXGetYOnce(special, subtotal, items) ==
  The({IF Len(items) > 0 /\ totalItems >= BuyQty(special)
       THEN DMul(DDiv(subtotal, DInt(totalItems)), DInt(GetQty(special)))
       ELSE DInt(0) : totalItems \in {TotalItems(items, 1)}})

\* case 'buy_x_get_y'
BuyXGetY(special, subtotal, items) ==
  The({IF Len(items) > 0 /\ totalItems >= BuyQty(special)
       THEN DMul(DDiv(subtotal, DInt(totalItems)),
                 DInt((totalItems \div (BuyQty(special) + GetQty(special)))
                        * GetQty(special)))
       ELSE DInt(0) : totalItems \in {TotalItems(items, 1)}})

\* faulty variant: the value of a bundle_discount rule is taken as an amount
DiscountBundleAmount(special, subtotal, items) ==
  CASE special.type = "discount_percentage" ->
         DDiv(DMul(subtotal, ParseFloat(special.value.number)), DInt(100))
    [] special.type \in {"fixed_price", "bundle_discount"} ->
         MathMin(ParseFloat(special.value.number), subtotal)
    [] special.type = "buy_x_get_y" -> BuyXGetY(special, subtotal, items)
    [] OTHER -> DInt(0)

\* the switch on special.type
Discount(special, subtotal, items) ==
  CASE special.type \in {"discount_percentage", "bundle_discount"} ->
         DDiv(DMul(subtotal, ParseFloat(special.value.number)), DInt(100))
    [] special.type = "fixed_price" ->
         MathMin(ParseFloat(special.value.number), subtotal)
    [] special.type = "buy_x_get_y" -> BuyXGetY(special, subtotal, items)
    [] OTHER -> DInt(0)

\* Math.round(discount * 100) / 100, as the number of hundredths: the
\* discount sent is the Number nearest to that many hundredths
RoundToCents(discount) == MathRound(DMul(discount, DInt(100)))

\* what the handler computes from the row and the request
Evaluate(special, subtotal, items) ==
  The({[below |-> BelowMinimum(special, sub),
        discount |-> RoundToCents(Discount(special, sub, items))] :
         sub \in {JsonNumber(subtotal)}})

\* the bodies staff send to create a rule, all with name, start_date and
\* end_date: type, value (a number in hundredths, 0 also for a body without
\* value, or an object of quantities) and code ("" is a body without code)
Percent(n) == [number |-> n, buy |-> 0, get |-> 0]

CreateBodies ==
  {[type |-> "discount_percentage", value |-> Percent(15000), code |-> "big"],
   [type |-> "bundle_discount", value |-> Percent(15000), code |-> "BIG"],
   [type |-> "fixed_price", value |-> Percent(2000), code |-> ""],
   [type |-> "buy_x_get_y", value |-> [number |-> Null, buy |-> 2, get |-> 1],
    code |-> ""],
   [type |-> "discount_percentage", value |-> Percent(0), code |-> "big"],
   [type |-> "free_shipping", value |-> Percent(1000), code |-> ""]}

\* the bodies staff send to update a rule: fields are the keys the body has
UpdateBodies ==
  {[fields |-> {"code"}, code |-> "big", value |-> Percent(0)],
   [fields |-> {"code"}, code |-> "", value |-> Percent(0)],
   [fields |-> {"value"}, code |-> "", value |-> Percent(5000)],
   [fields |-> {}, code |-> "", value |-> Percent(0)]}

\* the columns of a rule the switch reads
Terms(special) ==
  [type |-> special.type, value |-> special.value,
   min_purchase |-> special.min_purchase]

RuleTerms == {Terms(sp) : sp \in Rules}

\* the same columns of the rules staff can make of the bodies
AdminTerms ==
  {[type |-> b.type, value |-> v, min_purchase |-> Null] :
     b \in CreateBodies,
     v \in {c.value : c \in CreateBodies \cup UpdateBodies}}

\* the subtotals of the requests against the rules staff made
AdminSubtotals == {40000, 1000}

Evaluations ==
  {<<<<t, sub, items>>, Evaluate(t, sub, items)>> :
     t \in RuleTerms, sub \in Subtotals \cup DiscountSubtotals,
     items \in PromoCarts \cup DiscountCarts}
    \cup {<<<<t, sub, <<>>>>, Evaluate(t, sub, <<>>)>> :
            t \in AdminTerms, sub \in AdminSubtotals}

\* an error of the language itself, thrown inside the handler
TypeError(message) ==
  [name |-> "TypeError", statusCode |-> 0, code |-> "", message |-> message]

\* the rule of a request that reached no row
NoRule == [id |-> 0]

\* the JSON bodies of the answers; fields are the keys the body has
ErrorBody(a) ==
  [fields |-> {"error"}, valid |-> FALSE, error |-> a.body.error,
   amount |-> 0, special |-> 0, discount |-> 0]

RejectedBody(error, amount) ==
  [fields |-> {"valid", "error"}, valid |-> FALSE, error |-> error,
   amount |-> amount, special |-> 0, discount |-> 0]

AcceptedBody(special, discount) ==
  [fields |-> {"valid", "special", "discount"}, valid |-> TRUE, error |-> "",
   amount |-> 0, special |-> special.id, discount |-> discount]

\* special.min_purchase.toFixed(2) in the message of the rejection: the
\* value is the string node-postgres gives for a DECIMAL column, and a
\* string has no toFixed
MinPurchaseRejection(special) ==
  errorHandler(TypeError("special.min_purchase.toFixed is not a function"))

\* faulty variant: a validation counts as a use of the rule
SpecialsCountUse(rows, special) ==
  {IF sp = special THEN [sp EXCEPT !.used_count = @ + 1] ELSE sp : sp \in rows}

\* table specials after the handler: it has no statement that writes
SpecialsAfterValidate(rows, special) == rows

\* the answer of the handler after the query gave the row special
ValidateAnswer(q, special) ==
  LET ev == Lookup(Evaluations, <<Terms(special), q.subtotal, q.items>>)
  IN  IF ev.below
      THEN LET a == MinPurchaseRejection(special)
           IN  [q EXCEPT !.rule = special, !.status = a.status,
                         !.body = ErrorBody(a)]
      ELSE [q EXCEPT !.rule = special, !.status = 200,
                     !.body = AcceptedBody(special, ev.discount)]

\* the whole handler: it has one await, the query
ValidateCode(code, subtotal, items, now) ==
  LET q == [code |-> code, subtotal |-> subtotal, items |-> items,
            now |-> now, looked |-> FALSE, rule |-> NoRule, status |-> 0,
            body |-> NoBody]
  IN
  /\ IF code = ""
     THEN /\ LET a == errorHandler(AppError("Promo code is required", 400))
             IN  promo' = [q EXCEPT !.status = a.status, !.body = ErrorBody(a)]
          /\ UNCHANGED <<faults, specials>>
     ELSE \/ /\ faults < MaxFaults
             /\ faults' = faults + 1
             /\ LET a == errorHandler(PgError("08006"))
                IN  promo' = [q EXCEPT !.status = a.status,
                                       !.body = ErrorBody(a)]
             /\ UNCHANGED specials
          \/ /\ UNCHANGED faults
             /\ LET rows == SelectSpecial(specials, ToUpperCase(code), now)
                    ql   == [q EXCEPT !.looked = TRUE]
                IN  IF rows = {}
                    THEN /\ promo' = [ql EXCEPT !.status = 400,
                                         !.body = RejectedBody(
                                            "Invalid or expired promo code", 0)]
                         /\ UNCHANGED specials
                    ELSE \E special \in rows :
                           /\ promo' = ValidateAnswer(ql, special)
                           /\ specials' = SpecialsAfterValidate(specials, special)
  /\ UNCHANGED <<orders, order_items, orders_id_seq, items_id_seq, tx, req,
                 sessions, created, hook, upd, catalog>>

(***************************************************************************)
(* POST /specials and PUT /specials/:id, for a request that passed         *)
(* authorize and sent no image.                                            *)
(***************************************************************************)
\* const validTypes = [...]
ValidTypes ==
  {"discount_percentage", "bundle_discount", "buy_x_get_y", "fixed_price"}

\* !value: a number 0, or no value
NoValue(value) == value.number = 0

\* code ? code.toUpperCase() : null ("" is NULL)
StoredCode(code) == IF code = "" THEN "" ELSE ToUpperCase(code)

\* the row INSERTed: active is true by default, used_count 0 by the
\* column's default, and min_purchase and max_uses are not sent
NewSpecial(id, body) ==
  [id |-> id, code |-> StoredCode(body.code), type |-> body.type,
   value |-> body.value, active |-> TRUE, start_date |-> 1, end_date |-> 3,
   min_purchase |-> Null, max_uses |-> Null, used_count |-> 0]

\* the answer to a request of staff that failed with err
AdminFailed(op, id, err) ==
  LET a == errorHandler(err)
  IN  [op |-> op, id |-> id, status |-> a.status, body |-> a.body]

\* the whole handler: without an image it has one await, the INSERT.  The
\* table has no constraint on code (idx_specials_code is not unique)
CreateSpecial(body) ==
  /\ specials_id_seq < MaxSpecials
  /\ IF NoValue(body.value)
     THEN /\ adm' = AdminFailed("create", 0,
                 AppError("Name, type, value, start_date, and end_date are required", 400))
          /\ UNCHANGED <<specials, specials_id_seq, faults>>
     ELSE IF body.type \notin ValidTypes
     THEN /\ adm' = AdminFailed("create", 0,
                                AppError("Invalid special type", 400))
          /\ UNCHANGED <<specials, specials_id_seq, faults>>
     ELSE \/ /\ faults < MaxFaults
             /\ faults' = faults + 1
             /\ adm' = AdminFailed("create", 0, PgError("08006"))
             /\ UNCHANGED <<specials, specials_id_seq>>
          \/ /\ UNCHANGED faults
             /\ specials_id_seq' = specials_id_seq + 1
             /\ LET row == NewSpecial(specials_id_seq + 1, body)
                IN  /\ specials' = specials \cup {row}
                    /\ adm' = [op |-> "create", id |-> row.id,
                               status |-> 201, body |-> row]
  /\ UNCHANGED <<orders, order_items, orders_id_seq, items_id_seq, tx, req,
                 sessions, created, hook, promo, upd, products, got>>

\* the row after UPDATE specials SET ... for the keys of the body
UpdatedSpecial(special, body) ==
  [special EXCEPT
     !.code = IF "code" \in body.fields THEN StoredCode(body.code) ELSE @,
     !.value = IF "value" \in body.fields THEN body.value ELSE @]

\* the whole handler: the SELECT of the row and the UPDATE.  No statement
\* of the model deletes a rule, so nothing changes between the two
UpdateSpecial(id, body) ==
  /\ LET existing == {sp \in specials : sp.id = id}
     IN  IF existing = {}
         THEN /\ adm' = AdminFailed("update", id,
                                    AppError("Special not found", 404))
              /\ UNCHANGED <<specials, faults>>
         ELSE IF body.fields = {}
         THEN /\ adm' = AdminFailed("update", id,
                                    AppError("No updates provided", 400))
              /\ UNCHANGED <<specials, faults>>
         ELSE \/ /\ faults < MaxFaults
                 /\ faults' = faults + 1
                 /\ adm' = AdminFailed("update", id, PgError("08006"))
                 /\ UNCHANGED specials
              \/ /\ UNCHANGED faults
                 /\ \E special \in existing :
                      LET row == UpdatedSpecial(special, body)
                      IN  /\ specials' = (specials \ {special}) \cup {row}
                          /\ adm' = [op |-> "update", id |-> id,
                                     status |-> 200, body |-> row]
  /\ UNCHANGED <<orders, order_items, orders_id_seq, items_id_seq, tx, req,
                 sessions, created, hook, promo, upd, products, got,
                 specials_id_seq>>

(***************************************************************************)
(* SpecAdmin: staff create up to MaxSpecials rules and update them, while  *)
(* codes are validated.                                                    *)
(***************************************************************************)
NextAdmin ==
  \/ \E body \in CreateBodies : CreateSpecial(body)
  \/ \E id \in 1..MaxSpecials : \E body \in UpdateBodies :
       UpdateSpecial(id, body)
  \/ \E subtotal \in AdminSubtotals :
       ValidateCode("big", subtotal, <<>>, 2)

SpecAdmin == Init /\ [][NextAdmin]_vars

(***************************************************************************)
(* SpecPromo: validate-code requests against the rules staff have created. *)
(***************************************************************************)
InitPromo ==
  /\ orders = {}
  /\ order_items = {}
  /\ orders_id_seq = 0
  /\ items_id_seq = 0
  /\ tx = [r \in Requests |-> NoTx]
  /\ req = [r \in Requests |-> IdleReq]
  /\ sessions = [s \in Sessions |-> NoSession]
  /\ created = [status |-> 0, body |-> NoBody]
  /\ hook = [verified |-> FALSE, type |-> "", session |-> 0, status |-> 0,
             body |-> NoBody]
  /\ faults = 0
  /\ specials \in SpecialTables
  /\ promo = NoPromo
  /\ upd = NoUpd
  /\ products = Products
  /\ got = NoGot
  /\ specials_id_seq = MaxId(specials)
  /\ adm = NoAdm

NextPromo ==
  \E code \in Codes : \E subtotal \in Subtotals : \E items \in PromoCarts :
    \E now \in Times : ValidateCode(code, subtotal, items, now)

SpecPromo == InitPromo /\ [][NextPromo]_vars

(***************************************************************************)
(* SpecDiscount: validate-code requests against DiscountTable, where every *)
(* rule can be redeemed, for the subtotals and carts that tell the kinds   *)
(* of rule apart.                                                          *)
(***************************************************************************)
InitDiscount ==
  /\ orders = {}
  /\ order_items = {}
  /\ orders_id_seq = 0
  /\ items_id_seq = 0
  /\ tx = [r \in Requests |-> NoTx]
  /\ req = [r \in Requests |-> IdleReq]
  /\ sessions = [s \in Sessions |-> NoSession]
  /\ created = [status |-> 0, body |-> NoBody]
  /\ hook = [verified |-> FALSE, type |-> "", session |-> 0, status |-> 0,
             body |-> NoBody]
  /\ faults = 0
  /\ specials = DiscountTable
  /\ promo = NoPromo
  /\ upd = NoUpd
  /\ products = Products
  /\ got = NoGot
  /\ specials_id_seq = MaxId(specials)
  /\ adm = NoAdm

NextDiscount ==
  \E code \in DiscountCodes : \E subtotal \in DiscountSubtotals :
    \E items \in DiscountCarts : ValidateCode(code, subtotal, items, 2)

SpecDiscount == InitDiscount /\ [][NextDiscount]_vars

(***************************************************************************)
(* SpecCore: every operation of the core against one table of rules, for   *)
(* MaxCheckoutReq order requests, one cart at the gateway, one order id    *)
(* and one promo code that exists.                                         *)
(***************************************************************************)
NextCore ==
  \/ Handlers(1..MaxCheckoutReq)
  \/ CreateSession(<<Cookie>>, "pickup")
  \/ \E s \in Sessions : Pay(s)
  \/ \E v \in BOOLEAN : \E s \in Sessions :
       Webhook(v, "checkout.session.completed", s)
  \/ \E status \in {"ready", "shipped"} : UpdateStatus(1, status)
  \/ \E code \in {"TWENTY", "NOPE"} : ValidateCode(code, 40000, <<>>, 2)

SpecCore == InitPromo /\ [][NextCore]_vars

(***************************************************************************)
(* Properties of the order lifecycle.                                      *)
(***************************************************************************)
ConfirmRequests == {r \in Requests : req[r].op = "confirm"}

\* request r2 arrived after request r1 was answered
Later(r1, r2) == r1 \in req[r2].after

\* the requests that name session s
Naming(s) == {r \in Requests : req[r].op # "none" /\ req[r].sessionId = s}

\* the committed order lines of order o
LinesOf(o) == {l \in order_items : l.order_id = o.id}

\* the steps between BEGIN and the answer
AtomicStep == {"insertOrder", "insertItem", "commit"}

\* what the other connections can read
Stored == <<orders, order_items, orders_id_seq, items_id_seq, tx>>

\* C1: in every reachable state at most one order row exists for each
\* non-null payment session id
C1_OneOrderPerSession ==
  \A s \in Sessions : Cardinality(SelectBySession(s)) <= 1

\* C2: when two confirm requests of the same session run concurrently and
\* both are answered without error, exactly one order row is committed for
\* the session and both answers carry the same order id
C2_ConcurrentConfirmOneOrder ==
  \A r1, r2 \in ConfirmRequests :
    ( /\ r1 # r2
      /\ req[r1].sessionId # 0
      /\ req[r1].sessionId = req[r2].sessionId
      /\ ~Later(r1, r2) /\ ~Later(r2, r1)
      /\ Done(r1) /\ Done(r2)
      /\ req[r1].status < 400 /\ req[r2].status < 400 )
    => /\ Cardinality(SelectBySession(req[r1].sessionId)) = 1
       /\ req[r1].body.id = req[r2].body.id

\* C3: a confirm request whose order INSERT met an order already stored for
\* its session id (the case a unique session-id column rejects) does not end
\* in an error: it answers with that stored order
C3_DuplicateInsertRefetches ==
  \A r \in ConfirmRequests :
    (Done(r) /\ req[r].dup /\ req[r].failedAt = "")
    => /\ req[r].status < 400
       /\ \E o \in SelectBySession(req[r].sessionId) :
            o.id # req[r].order.id /\ req[r].body.id = o.id

\* C4: a confirm request that finds an order stored for its session id
\* answers 200 with that order's id, orderNumber, status and total, inserts
\* nothing and does not call the gateway
C4_RepeatReturnsStoredOrder ==
  \A r \in ConfirmRequests :
    req[r].gate = "hit"
    => /\ req[r].status = 200
       /\ \E o \in SelectBySession(req[r].sessionId) :
            req[r].body = CreatedBody(o)
       /\ req[r].order = NoRow
       /\ tx[r] = NoTx
       /\ req[r].session = NoSession

\* C5: a confirm request writes an order only after the gateway returned its
\* session as paid; when the gateway returned anything else, or the call
\* failed, the request ends in an error and has written nothing
C5_OrderOnlyIfPaid ==
  /\ \A r \in ConfirmRequests :
       /\ (req[r].order # NoRow \/ tx[r] # NoTx \/ req[r].status = 201)
            => req[r].session.payment_status = "paid"
       /\ (Done(r) /\ req[r].gate = "miss"
             /\ req[r].session.payment_status # "paid")
            => (req[r].status >= 400 /\ req[r].order = NoRow /\ tx[r] = NoTx)
  /\ \A o \in orders :
       o.status = "confirmed"
         => \E r \in ConfirmRequests :
              req[r].order = o /\ req[r].session.payment_status = "paid"

\* C5 witness: one confirm request was refused because its session was
\* unpaid, another because the gateway call failed, and no order is stored
C5_Refused ==
  /\ orders = {}
  /\ \E r \in ConfirmRequests :
       /\ Done(r) /\ req[r].gate = "miss"
       /\ req[r].session.payment_status = "unpaid"
       /\ req[r].status = 400
  /\ \E r \in ConfirmRequests :
       Done(r) /\ req[r].failedAt = "retrieve" /\ req[r].status = 500

\* C6: in every state the other requests can read, an order of either
\* handler is stored with all its lines or not at all, every stored line
\* belongs to a stored order, and a request that failed at the order insert,
\* a line insert or COMMIT has no row stored
C6_OrderWithAllLinesOrNothing ==
  /\ \A l \in order_items : \E o \in orders : o.id = l.order_id
  /\ \A o \in orders :
       \E r \in Requests : req[r].order = o /\ req[r].status = 201
  /\ \A r \in Requests :
       req[r].order # NoRow
         => IF req[r].order \in orders
            THEN Cardinality(LinesOf(req[r].order)) = Len(req[r].items)
            ELSE LinesOf(req[r].order) = {}
  /\ \A r \in Requests :
       req[r].failedAt \in AtomicStep
         => (req[r].order \notin orders /\ (Done(r) => tx[r] = NoTx))

\* C6 witness: a request failed at its second line insert and left nothing,
\* while another request's order is stored with both its lines
C6_FailedAfterFirstLine ==
  /\ \E r \in Requests :
       /\ Done(r) /\ req[r].failedAt = "insertItem" /\ req[r].i = 2
       /\ req[r].order \notin orders /\ LinesOf(req[r].order) = {}
  /\ \E r \in Requests :
       /\ req[r].order \in orders
       /\ Cardinality(LinesOf(req[r].order)) = 2

\* C7: after a verified checkout.session.completed notification for a paid
\* session has been answered, exactly one order exists for that session
C7_WebhookCreatesOrder ==
  (hook.verified /\ hook.type = "checkout.session.completed"
     /\ hook.status = 200)
  => Cardinality(SelectBySession(hook.session)) = 1

\* C8: a notification that fails verification is answered 400 with the
\* reason, a verified one of any event type is answered {received: true},
\* and no delivery changes what is stored
C8_WebhookVerification ==
  /\ [](hook.status # 0 =>
          IF hook.verified
          THEN hook.status = 200 /\ hook.body = [received |-> TRUE]
          ELSE /\ hook.status = 400
               /\ hook.body = [error |-> "Webhook Error: signature"])
  /\ [][hook' # hook => UNCHANGED Stored]_vars

\* C8 witness: a notification was refused while an order is stored
C8_Rejected ==
  /\ ~hook.verified /\ hook.status = 400
  /\ orders # {}

\* C9: a confirm request for a paid session that failed in the atomic step
\* got an error answer, released its client and left no row; a later confirm
\* request for that session, with no failure of its own and no other request
\* for the session than failed earlier ones, answers 201 and its order is the
\* only one of the session
C9_RetryAfterRollback ==
  \A r1 \in ConfirmRequests :
    (Done(r1) /\ req[r1].failedAt \in AtomicStep)
    => /\ req[r1].session.payment_status = "paid"
       /\ req[r1].status \in {500, 409}
       /\ req[r1].released = 1
       /\ tx[r1] = NoTx
       /\ req[r1].order \notin orders
       /\ LinesOf(req[r1].order) = {}
       /\ \A r2 \in ConfirmRequests :
            ( /\ Later(r1, r2)
              /\ req[r2].sessionId = req[r1].sessionId
              /\ Done(r2) /\ req[r2].failedAt = ""
              /\ \A r3 \in Naming(req[r1].sessionId) \ {r2} :
                   Done(r3) /\ Later(r3, r2) /\ req[r3].status >= 400 )
            => /\ req[r2].status = 201
               /\ SelectBySession(req[r1].sessionId) = {req[r2].order}

\* C9 witness: the first confirm request failed at COMMIT and the second,
\* sent afterwards for the same session, created the order
C9_RetrySucceeded ==
  \E r1, r2 \in ConfirmRequests :
    /\ Done(r1) /\ req[r1].failedAt = "commit" /\ req[r1].status = 500
    /\ Later(r1, r2) /\ req[r2].sessionId = req[r1].sessionId
    /\ req[r2].status = 201
    /\ SelectBySession(req[r1].sessionId) = {req[r2].order}

\* C10: every stored order has total = subtotal + tax, in cents
C10_TotalIsSubtotalPlusTax ==
  \A o \in orders : o.total = o.subtotal + o.tax

\* C11: every stored order has subtotal >= 0 and total >= 0, in cents
C11_NeverNegative ==
  \A o \in orders : o.subtotal >= 0 /\ o.total >= 0

\* C12: a create request with an empty cart, or without the customer's
\* email and name, is answered 400 before it takes a client and writes no
\* row; every order a create request stores has status pending
C12_CreateOrderValidation ==
  \A r \in Requests :
    req[r].op = "create"
    => /\ (Len(req[r].items) = 0 \/ ~req[r].customerOk)
            => /\ Done(r) /\ req[r].status = 400
               /\ req[r].client = "none" /\ req[r].released = 0
               /\ req[r].order = NoRow /\ tx[r] = NoTx
       /\ req[r].order # NoRow => req[r].order.status = "pending"
       /\ req[r].status = 201
            => /\ req[r].body.status = "pending"
               /\ \E o \in orders : o.id = req[r].body.id /\ o.status = "pending"

\* C12 witness: one create request was refused for its cart, another for
\* its customer, and nothing is stored
C12_Refused ==
  /\ orders = {} /\ order_items = {}
  /\ \E r \in Requests :
       req[r].op = "create" /\ Len(req[r].items) = 0 /\ req[r].status = 400
  /\ \E r \in Requests :
       /\ req[r].op = "create" /\ Len(req[r].items) > 0
       /\ ~req[r].customerOk /\ req[r].status = 400

\* C13: a status update whose target is not one of the six statuses is
\* answered 400, one that names no order is answered 404, and the status
\* of a stored order changes only in a step that answers 200 for that order
\* and that target
C13_StatusUpdateFailures ==
  /\ [](upd.status # 0 =>
          /\ upd.target \notin ValidStatuses => upd.status = 400
          /\ ( /\ upd.target \in ValidStatuses /\ ~upd.failed
               /\ upd.id # NotANumber /\ upd.before = "" )
               => upd.status = 404
          /\ (upd.status >= 400 /\ upd.before # "")
               => StatusOf(upd.id) = upd.before)
  /\ [][\A o \in orders : \A o2 \in orders' :
          (o2.id = o.id /\ o2.status # o.status)
          => /\ upd'.status = 200 /\ upd'.id = o.id
             /\ upd'.target = o2.status]_vars

\* C13 witness: an update of a stored order to an unknown status was
\* refused and the order still has its status, which is not the initial one
C13_RefusedUnknown ==
  /\ upd.status = 400 /\ upd.target = "shipped"
  /\ upd.before = "ready"
  /\ \E o \in orders : o.id = upd.id /\ o.status = "ready"

\* C14: a status update of a stored order to any of the six statuses is
\* answered 200 with the target and the order has the target status,
\* whatever its status was before
C14_AnyKnownTransition ==
  ( /\ upd.status # 0 /\ upd.target \in ValidStatuses
    /\ ~upd.failed /\ upd.before # "" )
  => /\ upd.status = 200
     /\ upd.body.status = upd.target
     /\ \E o \in orders : o.id = upd.id /\ o.status = upd.target

\* C14 witness: a completed order was moved back to pending
C14_CompletedBackToPending ==
  /\ upd.status = 200 /\ upd.before = "completed" /\ upd.target = "pending"
  /\ \E o \in orders : o.id = upd.id /\ o.status = "pending"

(***************************************************************************)
(* Properties of validate-code.                                            *)
(***************************************************************************)
\* the rule sp can be redeemed with this code at this time
Qualifies(sp, code, now) ==
  /\ sp.code = ToUpperCase(code)
  /\ sp.active
  /\ sp.start_date <= now /\ now <= sp.end_date
  /\ (sp.max_uses = Null \/ sp.used_count < sp.max_uses)

\* C15: a validation is answered valid only with a stored rule that has the
\* upper-cased code, is active, has the time of the lookup in its window
\* and has uses left; when the lookup found no such rule the answer is 400
\* with valid false, a reason and no discount
C15_ValidOnlyForQualifyingRule ==
  promo.status # 0
  => /\ promo.body.valid
          => /\ promo.rule \in specials
             /\ Qualifies(promo.rule, promo.code, promo.now)
     /\ ( promo.looked
          /\ ~\E sp \in specials : Qualifies(sp, promo.code, promo.now) )
          => /\ promo.status = 400
             /\ promo.body.fields = {"valid", "error"}
             /\ ~promo.body.valid /\ promo.body.error # ""

\* C15 witness: a rule with one of its two uses left was accepted
C15_ValidWithUsesLeft ==
  /\ promo.status = 200 /\ promo.body.valid
  /\ promo.rule = Twenty /\ promo.body.special = Twenty.id

\* C16: a validation without code is answered with a body of the keys valid
\* and error, valid being false, as the other rejections are
C16_MissingCodeIsValue ==
  (promo.status # 0 /\ promo.code = "")
  => /\ promo.body.fields = {"valid", "error"}
     /\ ~promo.body.valid /\ promo.body.error # ""

\* C17: for a rule with a minimum purchase, a subtotal below the minimum is
\* answered valid false with the minimum to two decimals in the message,
\* and a subtotal equal to the minimum or above is accepted
C17_MinimumPurchase ==
  (promo.status # 0 /\ promo.rule # NoRule /\ promo.rule.min_purchase # Null)
  => IF promo.subtotal < promo.rule.min_purchase * 10
     THEN /\ promo.body.fields = {"valid", "error"}
          /\ ~promo.body.valid
          /\ promo.body.amount = promo.rule.min_purchase
     ELSE promo.status = 200 /\ promo.body.valid

\* C18: no step changes the used_count of a rule, and a rule that has uses
\* left has them after every step
C18_UsedCountNeverChanges ==
  [][\A sp \in specials :
       \E sp2 \in specials' :
         /\ sp2.id = sp.id /\ sp2.used_count = sp.used_count
         /\ (sp.max_uses # Null /\ sp.used_count < sp.max_uses)
              => sp2.used_count < sp2.max_uses]_vars

\* C18 witness: a rule with uses left was validated after an order was
\* confirmed, a status updated, a session created and a notification
\* answered, and the rule is stored as it was
C18_AllOperationsDone ==
  /\ promo.status = 200 /\ promo.rule = Twenty /\ Twenty \in specials
  /\ \E o \in orders : o.stripe_session_id # 0
  /\ upd.status = 200
  /\ created.status = 200
  /\ hook.status = 200

\* C19: the discount of an accepted validation is >= 0
C19_DiscountNotNegative ==
  promo.status = 200 => promo.body.discount >= 0

\* C20: the discount of an accepted fixed_price rule is the smaller of the
\* rule's value and the subtotal, and not more than the subtotal (the
\* discount and the value in hundredths, the subtotal in thousandths)
C20_FixedPriceIsMin ==
  (promo.status = 200 /\ promo.rule.type = "fixed_price")
  => /\ promo.body.discount * 10
          = MinOf(promo.rule.value.number * 10, promo.subtotal)
     /\ promo.body.discount * 10 <= promo.subtotal

(***************************************************************************)
(* Properties of the discount.                                             *)
(***************************************************************************)
\* d is a whole number nearest to num / den, for den > 0
Nearest(d, num, den) ==
  /\ 2 * d * den - 2 * num <= den
  /\ 2 * num - 2 * d * den <= den

\* C21: the discount of an accepted buy_x_get_y rule, with the quantities of
\* the rule's value or 2 and 1 without them, is 0 for no cart lines and for
\* fewer items than the buy quantity, and otherwise the cent nearest to
\* (subtotal / items) * floor(items / (buy + get)) * get; it is 10.00 for
\* five items at 10.00 and the quantities 2 and 1
C21_BuyXGetY ==
  (promo.status = 200 /\ promo.rule.type = "buy_x_get_y")
  => LET buy   == IF promo.rule.value.buy > 0 THEN promo.rule.value.buy ELSE 2
         get   == IF promo.rule.value.get > 0 THEN promo.rule.value.get ELSE 1
         total == TotalItems(promo.items, 1)
         free  == (total \div (buy + get)) * get
     IN  /\ IF Len(promo.items) = 0 \/ total < buy
            THEN promo.body.discount = 0
            ELSE Nearest(promo.body.discount, promo.subtotal * free, total * 10)
         /\ (promo.items = <<Five>> /\ promo.subtotal = 50000
               /\ buy = 2 /\ get = 1)
              => promo.body.discount = 1000

\* C21 witness: the rule without quantities gave 10.00 off five items at
\* 10.00
C21_FiveItems ==
  /\ promo.status = 200 /\ promo.rule = BDefault
  /\ promo.items = <<Five>> /\ promo.subtotal = 50000
  /\ promo.body.discount = 1000

\* the kinds of rule whose value is a percentage
PercentKinds == {"discount_percentage", "bundle_discount"}

\* the discount, in cents, the handler computes for rule sp
DiscountFor(sp, subtotal, items) ==
  Lookup(Evaluations, <<Terms(sp), subtotal, items>>).discount

C23_RoundTrip ==
  \A r \in ConfirmRequests :
    (got.status = 200 /\ req[r].status = 201 /\ req[r].order.id = got.id)
    => /\ Cardinality(got.body.items) = Len(req[r].session.items)
       /\ \A i \in 1..Len(req[r].session.items) :
            \E l \in got.body.items :
              /\ l.productName = req[r].session.items[i].name
              /\ l.quantity = req[r].session.items[i].quantity
              /\ l.unitPrice * 10 = req[r].session.items[i].price
              /\ l.totalPrice = l.quantity * l.unitPrice

(***************************************************************************)
(* Properties of the rules staff create.                                   *)
(***************************************************************************)
\* C24: no two stored rules have the same code, a rule without code aside
C24_CodesAreUnique ==
  \A sp1, sp2 \in specials :
    (sp1.id # sp2.id /\ sp1.code # "") => sp1.code # sp2.code

(***************************************************************************)
(* Properties of the transaction block.                                    *)
(***************************************************************************)
\* C25: a request that was answered after it took a client has released it
\* once, whichever statement threw; a client is never released twice, and
\* never before the answer or without having been taken
C25_ClientReleasedOnce ==
  \A r \in Requests :
    /\ req[r].released <= 1
    /\ req[r].client = "none" => req[r].released = 0
    /\ req[r].client = "held" => (~Done(r) /\ req[r].released = 0)
    /\ req[r].client = "released" => (Done(r) /\ req[r].released = 1)
    /\ (Done(r) /\ req[r].failedAt \in {"begin"} \cup AtomicStep)
         => req[r].released = 1
    /\ (Done(r) /\ req[r].status = 201) => req[r].released = 1

\* C25 witness: the order insert of a request met the number of a stored
\* order, its ROLLBACK threw, and the request released its client once
C25_RollbackThrew ==
  /\ orders_id_seq = 2 /\ Cardinality(orders) = 1
  /\ \E r \in Requests :
       /\ Done(r) /\ req[r].failedAt = "insertOrder"
       /\ req[r].status = 500 /\ req[r].released = 1

(***************************************************************************)
(* Properties of create-session.                                           *)
(***************************************************************************)
\* the sessions the gateway holds
Held == {s \in Sessions : sessions[s].payment_status # "none"}

\* C26: a create-session step leaves the orders, the order lines and the
\* open transactions as they are; when it is answered 200 the gateway holds
\* one session more, and none more otherwise; and an order is stored only
\* by the COMMIT of a confirm or create request that is answered 201
C26_CreateSessionStoresNothing ==
  /\ [][(\E items \in Carts \cup {<<>>} : \E t \in OrderTypes :
            CreateSession(items, t))
        => /\ UNCHANGED <<orders, order_items, orders_id_seq, items_id_seq,
                          tx>>
           /\ IF created'.status = 200
              THEN /\ Held \subseteq Held'
                   /\ Cardinality(Held') = Cardinality(Held) + 1
                   /\ \A s \in Held : sessions'[s] = sessions[s]
              ELSE /\ created'.status >= 400
                   /\ UNCHANGED sessions]_vars
  /\ [][orders' # orders
        => \E r \in Requests :
             /\ req[r].pc = "commit" /\ req'[r].status = 201
             /\ req[r].op \in {"confirm", "create"}
             /\ orders' = orders \cup {req[r].order}]_vars

\* C26 witness: a session was created and paid, a later call without items
\* was refused, and no order is stored
C26_NoOrderYet ==
  /\ created.status = 400
  /\ \E s \in Sessions : sessions[s].payment_status = "paid"
  /\ orders = {} /\ order_items = {}

(***************************************************************************)
(* Properties of the stored orders.                                        *)
(***************************************************************************)
\* C27: a status update that is answered 200 leaves every order line, every
\* other order, and every column of its order but status and updated_at as
\* they are, and neither adds nor removes an order
C27_UpdateChangesStatusOnly ==
  [][((\E id \in 1..MaxReq : \E status \in ValidStatuses :
         UpdateStatus(id, status)) /\ upd'.status = 200)
     => /\ UNCHANGED <<order_items, orders_id_seq, items_id_seq, tx>>
        /\ {o.id : o \in orders'} = {o.id : o \in orders}
        /\ Cardinality(orders') = Cardinality(orders)
        /\ \A o \in orders :
             \E o2 \in orders' :
               /\ o2.id = o.id
               /\ IF o.id = upd'.id
                  THEN [o2 EXCEPT !.status = o.status,
                                  !.updated_at = o.updated_at] = o
                  ELSE o2 = o]_vars

\* C27 witness: of two stored orders with their lines, the first was moved
\* to ready and stamped, and the second is as it was inserted
C27_OtherOrderUntouched ==
  /\ upd.status = 200 /\ upd.id = 1 /\ upd.target = "ready"
  /\ \E o \in orders :
       /\ o.id = 1 /\ o.status = "ready" /\ o.updated_at = UpdateTime
       /\ Cardinality(LinesOf(o)) = 2
  /\ \E o \in orders :
       /\ o.id = 2 /\ o.status = "pending" /\ o.updated_at = InsertTime
       /\ Cardinality(LinesOf(o)) = 2

\* the sum of the line totals of the lines
RECURSIVE SumOfTotals(_)
SumOfTotals(lines) ==
  IF lines = {} THEN 0
  ELSE LET l == CHOOSE x \in lines : TRUE
       IN  l.total_price + SumOfTotals(lines \ {l})

\* C28: the subtotal of every stored order is the sum of the line totals of
\* its lines, in cents
C28_SubtotalIsSumOfLines ==
  \A o \in orders : o.subtotal = SumOfTotals(LinesOf(o))

\* C29: the discount of an accepted validation is not more than the
\* subtotal of the request, whatever rule staff created (the discount in
\* cents, the subtotal in thousandths)
C29_DiscountWithinSubtotal ==
  promo.status = 200 => promo.body.discount * 10 <= promo.subtotal

\* C30: every stored order has one of the six statuses; the row of a create
\* request is inserted as pending, the row of a confirm request as
\* confirmed, and a status update that is answered 200 had one of the six
\* as its target
C30_StatusIsOneOfSix ==
  /\ \A o \in orders : o.status \in ValidStatuses
  /\ \A r \in Requests :
       req[r].order # NoRow
       => req[r].order.status
            = (IF req[r].op = "confirm" THEN "confirmed" ELSE "pending")
  /\ upd.status = 200 => upd.target \in ValidStatuses

\* C30 witness: the order of a confirm request was moved to preparing, and
\* then an update of it to a status that is none of the six was refused
C30_StillPreparing ==
  /\ upd.status = 400 /\ upd.target = "shipped" /\ upd.before = "preparing"
  /\ \E o \in orders :
       /\ o.id = upd.id /\ o.stripe_session_id # 0
       /\ o.status = "preparing" /\ o.updated_at = UpdateTime
====
